---- MODULE Spec2Model ----
(***************************************************************************)
(* TreasuryRateClassifier (src/DataAnalylis.py) and the parallel batch     *)
(* download of TesouroDiretoDatasets (src/GetTesouroDiretoData.py).        *)
(*                                                                         *)
(* Three specifications over one set of variables:                        *)
(*   SpecPrep  the constructor, __init__ with _prepare_time_series, run on *)
(*             every small raw table;                                      *)
(*   Spec      the life of a constructed classifier: apply_clustering,     *)
(*             label_clusters and classify_current_cycle in any order;     *)
(*   SpecDL    download_all_data: five pool tasks and the main thread.     *)
(*                                                                         *)
(* Dates are day numbers of one year (1 = 1 January).  Rates are small     *)
(* naturals; NaN is the missing value.                                     *)
(***************************************************************************)
EXTENDS Integers, Sequences, FiniteSets, TLC

VARIABLES
    df,           \* the caller's table, aliased by self.df (line 32)
    pc,           \* "new" before __init__, "constructed" after it
    ts,           \* self.ts, the daily series: a sequence of [date, taxa]
    clusters,     \* self.clusters: None or the array of cluster ids
    labels,       \* self.labels: None or the dict cluster id -> name
    ts_clusters,  \* self.ts_clusters: absent, or the labelled frame
    result,       \* outcome of the last call made on the classifier
    task,         \* download_all_data: position of each pool task
    main,         \* download_all_data: position of the calling thread
    reported      \* download_all_data: what future.result() has told the caller

vars == <<df, pc, ts, clusters, labels, ts_clusters, result, task, main, reported>>

clsVars == <<df, pc, ts, clusters, labels, ts_clusters, result>>
dlVars == <<task, main, reported>>

----------------------------------------------------------------------------
(* Bounds *)

MaxRows == 3
MaxDay == 3
MaxK == 3

NaN == -1

\* The rates of the rows: three values, as three clusters need.
Rates == {1, 2, 3}
Days == 1 .. MaxDay
KRange == 1 .. MaxK

FILTER == "Tesouro IPCA+"
Tipos == {FILTER, "Tesouro Selic"}

\* A row of the raw table: 'Tipo Titulo', 'Data Base', 'Taxa Compra Manha'.
\* The date and rate of a row of another instrument are never read once the
\* row is filtered out, so such rows are drawn with one date and one rate.
RawRecord ==
    [tipo : {FILTER}, day : Days, taxa : Rates \cup {NaN}]
        \cup [tipo : Tipos \ {FILTER}, day : {1}, taxa : {1}]

\* 'Data Base' holds either day/month/year strings (dtype "str": day d
\* stands for the text "0d/01/<year>") or timestamps (dtype "datetime").  A
\* table without rows has no cell of either kind and is drawn once.
Tables ==
    { t \in { [dtype |-> k, rows |-> r] :
                k \in {"str", "datetime"},
                r \in UNION { [1 .. n -> RawRecord] : n \in 0 .. MaxRows } } :
        t.rows = <<>> => t.dtype = "datetime" }

----------------------------------------------------------------------------
(* _prepare_time_series *)

\* Day number of the first day of each month (a 365-day year).
MonthStart == <<1, 32, 60, 91, 121, 152, 182, 213, 244, 274, 305, 335>>

\* pd.to_datetime without format or dayfirst on the text dd/mm/yyyy reads the
\* first field as the month: "0d/01/yyyy" becomes day 1 of month d.  (Days of
\* the model never exceed 12, so the month-first format fits every cell.)
ParseDate(d) == MonthStart[d]

\* pd.to_datetime(self.df['Data Base']): a timestamp column is returned as it
\* is, a string column is parsed.
ToDatetime(t) ==
    IF t.dtype = "datetime" THEN t
    ELSE [dtype |-> "datetime",
          rows |-> [i \in DOMAIN t.rows |->
                      [t.rows[i] EXCEPT !.day = ParseDate(t.rows[i].day)]]]

\* self.df[self.df['Tipo Titulo'] == 'Tesouro IPCA+']
FilterTipo(rows) == SelectSeq(rows, LAMBDA r : r.tipo = FILTER)

\* set_index('Data Base')['Taxa Compra Manha']: a series of [date, taxa].
SetIndex(rows) == [i \in DOMAIN rows |-> [date |-> rows[i].day, taxa |-> rows[i].taxa]]

IsMonotonicIncreasing(s) == \A i \in 1 .. Len(s) - 1 : s[i].date <= s[i + 1].date

\* sort_index(): an index that is already non-decreasing is left as it is;
\* otherwise the rows are reordered by the default kind='quicksort', which is
\* not a stable sort: rows of equal date may come out in any order.
SortIndex(s) ==
    IF IsMonotonicIncreasing(s) THEN {s}
    ELSE { [i \in DOMAIN s |-> s[p[i]]] : p \in
             { q \in Permutations(DOMAIN s) :
                 \A i \in 1 .. Len(s) - 1 : s[q[i]].date <= s[q[i + 1]].date } }

\* index.duplicated(keep='last'): every occurrence of a date but the last.
Duplicated(s, i) == \E j \in i + 1 .. Len(s) : s[j].date = s[i].date

RECURSIVE KeepIdx(_, _)
KeepIdx(s, i) ==
    IF i > Len(s) THEN <<>>
    ELSE IF Duplicated(s, i) THEN KeepIdx(s, i + 1)
    ELSE <<s[i]>> \o KeepIdx(s, i + 1)

\* ts[~ts.index.duplicated(keep='last')]
DropDuplicated(s) == KeepIdx(s, 1)

\* The value a (sorted, duplicate-free) series holds at a date, NaN if none.
ValueAt(s, d) ==
    IF \E i \in DOMAIN s : s[i].date = d
    THEN LET i == CHOOSE i \in DOMAIN s : s[i].date = d IN s[i].taxa
    ELSE NaN

\* asfreq('D') left out: the rows as they are.
AsFreqD_NoReindex(s) == s

\* asfreq('D'): one row per calendar day from the first to the last date,
\* NaN where there is no row; an empty series stays empty.
AsFreqD(s) ==
    IF Len(s) = 0 THEN <<>>
    ELSE LET first == s[1].date
             last == s[Len(s)].date
         IN [i \in 1 .. (last - first + 1) |->
               [date |-> first + i - 1, taxa |-> ValueAt(s, first + i - 1)]]

\* ffill(): every NaN takes the last value before it that is not NaN; NaN at
\* the head of the series stays.
RECURSIVE FFillUpTo(_, _)
FFillUpTo(s, n) ==
    IF n = 0 THEN <<>>
    ELSE LET prev == FFillUpTo(s, n - 1)
             v == IF s[n].taxa = NaN /\ n > 1 THEN prev[n - 1].taxa ELSE s[n].taxa
         IN Append(prev, [date |-> s[n].date, taxa |-> v])

\* ffill() left out: the NaN of the reindexed series stay.
FFill_NoFill(s) == s

FFill(s) == FFillUpTo(s, Len(s))

\* Lines 47-51 on the table whose dates are parsed: every series the call can
\* return.
PrepareTimeSeries(t) ==
    { FFill(AsFreqD(DropDuplicated(sorted))) :
        sorted \in SortIndex(SetIndex(FilterTipo(t.rows))) }

----------------------------------------------------------------------------
(* The classifier object *)

None == [tag |-> "None"]
Absent == [tag |-> "absent"]
NoResult == [op |-> "", status |-> "", value |-> ""]

\* __init__ (lines 32-35).  Line 46 assigns the parsed column to self.df,
\* which is the caller's table.
Construct ==
    /\ pc = "new"
    /\ df' = ToDatetime(df)
    /\ ts' \in PrepareTimeSeries(df')
    /\ clusters' = None
    /\ labels' = None
    /\ ts_clusters' = Absent
    /\ result' = [op |-> "__init__", status |-> "ok", value |-> ""]
    /\ pc' = "constructed"
    /\ UNCHANGED dlVars

\* The tasks of download_all_data (lines 197-203), in the order of the list.
TaskNames == <<"estoque", "vendas", "taxas", "operacoes", "investidores">>
Tasks == DOMAIN TaskNames

\* download_all_data has not been called.
DLIdle ==
    /\ task = [t \in Tasks |-> "unsubmitted"]
    /\ main = [at |-> "idle", i |-> 0, j |-> 0, exc |-> 0]
    /\ reported = [t \in Tasks |-> "unknown"]

InitPrep ==
    /\ df \in Tables
    /\ pc = "new"
    /\ ts = <<>>
    /\ clusters = None
    /\ labels = None
    /\ ts_clusters = Absent
    /\ result = NoResult
    /\ DLIdle

NextPrep == Construct

SpecPrep == InitPrep /\ [][NextPrep]_vars

----------------------------------------------------------------------------
(* normalize_data and apply_clustering *)

RECURSIVE SumTaxa(_, _)
SumTaxa(s, n) ==
    IF n = 0 THEN 0
    ELSE SumTaxa(s, n - 1) + (IF s[n].taxa = NaN THEN 0 ELSE s[n].taxa)

CountTaxa(s) == Cardinality({i \in DOMAIN s : s[i].taxa # NaN})

\* StandardScaler.fit_transform: (x - mean) / std over the values that are not
\* NaN, NaN passed through; a zero std is replaced by 1, so a constant series
\* becomes all zeros.  The model keeps the numerator n*x - sum(x), which is the
\* normalized value times the positive factor n*std (n when std is zero).
NormalizeData(s) ==
    [i \in DOMAIN s |->
        IF s[i].taxa = NaN THEN [nan |-> TRUE, z |-> 0]
        ELSE [nan |-> FALSE, z |-> CountTaxa(s) * s[i].taxa - SumTaxa(s, Len(s))]]

Range(f) == {f[i] : i \in DOMAIN f}

\* KMeans(n_clusters=K, random_state=42).fit_predict on one-dimensional data:
\* every point gets the id of its nearest centre, so equal points share an id
\* and each cluster is an interval of values; the ids are arbitrary; when the
\* data has fewer than K distinct values only that many ids are used.
KMeansFitPredict(X, K) ==
    { a \in [DOMAIN X -> 0 .. K - 1] :
        /\ \A i, j \in DOMAIN X : X[i].z = X[j].z => a[i] = a[j]
        /\ \A i, j, k \in DOMAIN X :
              (X[i].z < X[j].z /\ X[j].z < X[k].z /\ a[i] = a[k]) => a[j] = a[i]
        /\ LET distinct == Cardinality({X[i].z : i \in DOMAIN X})
               used == Cardinality(Range(a))
           IN used = (IF distinct < K THEN distinct ELSE K) }

Raise(op, exc) == [op |-> op, status |-> exc, value |-> ""]
Returned(op, v) == [op |-> op, status |-> "ok", value |-> v]

\* apply_clustering(n_clusters=K), lines 74-76.  StandardScaler rejects an
\* empty array, KMeans rejects NaN and fewer samples than clusters; each is a
\* ValueError raised before self.clusters is assigned.  A second fit with the
\* same n_clusters on the unchanged series repeats the first (random_state=42).
ApplyClustering(K) ==
    /\ pc = "constructed"
    /\ LET X == NormalizeData(ts) IN
         IF \/ Len(ts) = 0
            \/ \E i \in DOMAIN X : X[i].nan
            \/ Len(ts) < K
         THEN /\ result' = Raise("apply_clustering", "ValueError")
              /\ UNCHANGED clusters
         ELSE /\ IF clusters # None /\ clusters.n_clusters = K
                 THEN UNCHANGED clusters
                 ELSE \E a \in KMeansFitPredict(X, K) :
                        clusters' = [tag |-> "array", n_clusters |-> K, v |-> a]
              /\ result' = Returned("apply_clustering", "")
    /\ UNCHANGED <<df, pc, ts, labels, ts_clusters>>
    /\ UNCHANGED dlVars

----------------------------------------------------------------------------
(* label_clusters and classify_current_cycle *)

\* The ids that occur in the 'Cluster' column (the groups of the groupby).
Groups(c) == IF c = None THEN {} ELSE Range(c.v)

RECURSIVE GroupSum(_, _, _, _)
GroupSum(s, a, g, n) ==
    IF n = 0 THEN 0
    ELSE GroupSum(s, a, g, n - 1) + (IF a[n] = g THEN s[n].taxa ELSE 0)

GroupCount(a, g) == Cardinality({i \in DOMAIN a : a[i] = g})

\* mean(g) < mean(h) and mean(g) <= mean(h) for two groups, on the daily
\* (un-normalized) rates, compared without division.
MeanLess(s, a, g, h) ==
    GroupSum(s, a, g, Len(s)) * GroupCount(a, h) < GroupSum(s, a, h, Len(s)) * GroupCount(a, g)

MeanLeq(s, a, g, h) == ~MeanLess(s, a, h, g)

\* groupby('Cluster')[...].mean().sort_values(): the group ids in ascending
\* order of their mean; groups of equal mean in either order.
SortValues(s, c) ==
    LET G == Groups(c)
        n == Cardinality(G)
    IN { o \in [1 .. n -> G] :
           /\ \A i, j \in 1 .. n : i # j => o[i] # o[j]
           /\ \A i \in 1 .. n - 1 : MeanLeq(s, c.v, o[i], o[i + 1]) }

\* Series.map(dict): an id that is no key of the dict maps to nan.
MapLabel(m, c) == IF c \in DOMAIN m THEN m[c] ELSE "nan"

\* label_clusters, lines 82-87.  Line 85 reads positions 0, 1 and 2 of the
\* sorted means and raises IndexError when there are fewer than three groups
\* (with self.clusters None the column is empty of ids and there is none);
\* nothing has been assigned by then.
LabelClusters ==
    /\ pc = "constructed"
    /\ IF Cardinality(Groups(clusters)) < 3
       THEN /\ result' = Raise("label_clusters", "IndexError")
            /\ UNCHANGED <<labels, ts_clusters>>
       ELSE \E o \in SortValues(ts, clusters) :
              LET m == (o[1] :> "Baixa") @@ (o[2] :> "Media") @@ (o[3] :> "Alta") IN
              /\ labels' = [tag |-> "dict", map |-> m]
              /\ ts_clusters' =
                    [tag |-> "frame",
                     rows |-> [i \in DOMAIN ts |->
                                 [date |-> ts[i].date, taxa |-> ts[i].taxa,
                                  Cluster |-> clusters.v[i],
                                  Label |-> MapLabel(m, clusters.v[i])]]]
              /\ result' = Returned("label_clusters", "")
    /\ UNCHANGED <<df, pc, ts, clusters>>
    /\ UNCHANGED dlVars

\* iloc[0] in place of iloc[-1]: the label of the first row.
ClassifyCurrentCycle_First ==
    /\ pc = "constructed"
    /\ IF ts_clusters = Absent
       THEN result' = Raise("classify_current_cycle", "AttributeError")
       ELSE result' = Returned("classify_current_cycle", ts_clusters.rows[1].Label)
    /\ UNCHANGED <<df, pc, ts, clusters, labels, ts_clusters>>
    /\ UNCHANGED dlVars

\* classify_current_cycle, lines 98-99: the attribute self.ts_clusters exists
\* only once label_clusters has completed.
ClassifyCurrentCycle ==
    /\ pc = "constructed"
    /\ IF ts_clusters = Absent
       THEN result' = Raise("classify_current_cycle", "AttributeError")
       ELSE result' = Returned("classify_current_cycle",
                               ts_clusters.rows[Len(ts_clusters.rows)].Label)
    /\ UNCHANGED <<df, pc, ts, clusters, labels, ts_clusters>>
    /\ UNCHANGED dlVars

\* Tables with one row of the filtered instrument per day, in date order.
DailyTables ==
    { [dtype |-> "datetime", rows |-> r] :
        r \in UNION { { q \in [1 .. n -> RawRecord] :
                          \A i \in 1 .. n : q[i].tipo = FILTER /\ q[i].day = i } :
                      n \in 0 .. MaxRows } }

\* A classifier just constructed on a table of DailyTables.
Init ==
    /\ df \in DailyTables
    /\ pc = "constructed"
    /\ ts \in PrepareTimeSeries(df)
    /\ clusters = None
    /\ labels = None
    /\ ts_clusters = Absent
    /\ result = Returned("__init__", "")
    /\ DLIdle

Next ==
    \/ \E K \in KRange : ApplyClustering(K)
    \/ LabelClusters
    \/ ClassifyCurrentCycle

Spec == Init /\ [][Next]_vars

----------------------------------------------------------------------------
(* download_all_data *)

\* The calls of a process_* method that are still to be made, named by the
\* next one: process_operacoes (lines 150-159) extracts the archive before it
\* converts, the others (e.g. lines 110-112) download, convert and clean up.
\* After the extraction, line 156 skips the conversion when find_csv_file
\* found no .csv file in the archive.
NextStep(t, at) ==
    IF at = "download" THEN (IF TaskNames[t] = "operacoes" THEN {"extract"} ELSE {"convert"})
    ELSE IF at = "extract" THEN {"convert", "clean_up"}
    ELSE IF at = "convert" THEN {"clean_up"}
    ELSE {"done"}

\* download_file raises on a failed request (line 71), ZipFile on a bad
\* archive, read_csv on a bad file.
CanRaise(at) == at \in {"download", "extract", "convert"}

Finished(t) == task[t] \in {"done", "raised"}

\* download_all_data is called.
DownloadAllData ==
    /\ main.at = "idle"
    /\ main' = [main EXCEPT !.at = "submit", !.i = 1]
    /\ UNCHANGED <<task, reported>>
    /\ UNCHANGED clsVars

\* Line 206: executor.submit for each task in turn.  The default pool has
\* min(32, cpu_count + 4) >= 5 workers, so a submitted task starts at once.
Submit ==
    /\ main.at = "submit"
    /\ task' = [task EXCEPT ![main.i] = "download"]
    /\ main' = IF main.i = Len(TaskNames)
               THEN [main EXCEPT !.at = "result", !.i = 1, !.j = 1]
               ELSE [main EXCEPT !.i = main.i + 1]
    /\ UNCHANGED reported
    /\ UNCHANGED clsVars

\* A pool task makes its next call, which returns.
TaskStep(t) ==
    /\ task[t] \in {"download", "extract", "convert", "clean_up"}
    /\ \E at \in NextStep(t, task[t]) : task' = [task EXCEPT ![t] = at]
    /\ UNCHANGED <<main, reported>>
    /\ UNCHANGED clsVars

\* A pool task's next call raises: the task ends, its exception is kept in
\* its future, the calls after it (clean_up among them) are not made.
TaskRaise(t) ==
    /\ CanRaise(task[t])
    /\ task' = [task EXCEPT ![t] = "raised"]
    /\ UNCHANGED <<main, reported>>
    /\ UNCHANGED clsVars

\* Lines 207-209: for each future (outer, i) for each future (inner, j):
\* future.result() waits for task j to end, returns if it returned ...
ResultReturns ==
    /\ main.at = "result"
    /\ task[main.j] = "done"
    /\ reported' = [reported EXCEPT ![main.j] = "ok"]
    /\ main' = IF main.j < Len(TaskNames) THEN [main EXCEPT !.j = main.j + 1]
               ELSE IF main.i < Len(TaskNames) THEN [main EXCEPT !.i = main.i + 1, !.j = 1]
               ELSE [main EXCEPT !.at = "shutdown"]
    /\ UNCHANGED task
    /\ UNCHANGED clsVars

\* ... and re-raises the task's exception if it raised, which leaves both
\* loops for the exit of the with block.
ResultRaises ==
    /\ main.at = "result"
    /\ task[main.j] = "raised"
    /\ reported' = [reported EXCEPT ![main.j] = "failed"]
    /\ main' = [main EXCEPT !.at = "shutdown", !.exc = main.j]
    /\ UNCHANGED task
    /\ UNCHANGED clsVars

\* Line 205, the exit of the with block: shutdown(wait=True) returns when
\* every submitted task has ended; the call then returns, or the exception
\* that left the loops propagates to the caller.
Shutdown ==
    /\ main.at = "shutdown"
    /\ \A t \in Tasks : Finished(t)
    /\ main' = [main EXCEPT !.at = IF main.exc = 0 THEN "returned" ELSE "raised"]
    /\ UNCHANGED <<task, reported>>
    /\ UNCHANGED clsVars

InitDL ==
    /\ df = [dtype |-> "datetime", rows |-> <<>>]
    /\ pc = "new"
    /\ ts = <<>>
    /\ clusters = None
    /\ labels = None
    /\ ts_clusters = Absent
    /\ result = NoResult
    /\ DLIdle

NextDL ==
    \/ DownloadAllData
    \/ Submit
    \/ \E t \in Tasks : TaskStep(t)
    \/ \E t \in Tasks : TaskRaise(t)
    \/ ResultReturns
    \/ ResultRaises
    \/ Shutdown

SpecDL == InitDL /\ [][NextDL]_vars

----------------------------------------------------------------------------
(* Properties of the constructor, checked under SpecPrep *)

\* The filtered rows of the (parsed) table as a series, in file order.
Observed == SetIndex(FilterTipo(df.rows))

ObservedDates == {Observed[i].date : i \in DOMAIN Observed}

\* C2 (completeness): when the filter matches a row and the rows of the first
\* date carry a rate, the constructed series has exactly one entry per
\* calendar day from the first to the last filtered date: the dates increase
\* strictly, consecutive entries are one day apart, and no value is missing.
C2_Completeness ==
    (/\ pc = "constructed"
     /\ ObservedDates # {}
     /\ \A i \in DOMAIN Observed :
           (\A d \in ObservedDates : Observed[i].date <= d) => Observed[i].taxa # NaN)
    => LET lo == CHOOSE d \in ObservedDates : \A e \in ObservedDates : d <= e
           hi == CHOOSE d \in ObservedDates : \A e \in ObservedDates : e <= d
       IN /\ Len(ts) = hi - lo + 1
          /\ ts[1].date = lo
          /\ ts[Len(ts)].date = hi
          /\ \A i \in 1 .. Len(ts) - 1 :
                ts[i].date < ts[i + 1].date /\ ts[i + 1].date = ts[i].date + 1
          /\ \A i \in DOMAIN ts : ts[i].taxa # NaN

\* A table in file disorder, with a repeated date and a day without a row.
C2_Witness ==
    /\ pc = "constructed"
    /\ ~IsMonotonicIncreasing(Observed)
    /\ \E i, j \in DOMAIN Observed : i # j /\ Observed[i].date = Observed[j].date
    /\ \E i \in DOMAIN ts : ts[i].date \notin ObservedDates
    /\ \A i \in DOMAIN Observed : Observed[i].taxa # NaN

\* C3 (dedup recency): when several filtered rows share a date and all carry
\* a rate, the series value at that date is the rate of the one that is last
\* in the file.
C3_LastInFileWins ==
    pc = "constructed" =>
      \A i \in DOMAIN Observed :
        (/\ \A j \in DOMAIN Observed :
               Observed[j].date = Observed[i].date => (j <= i /\ Observed[j].taxa # NaN)
         /\ \E j \in DOMAIN Observed :
               Observed[j].date = Observed[i].date /\ Observed[j].taxa # Observed[i].taxa)
        => \E k \in DOMAIN ts : ts[k].date = Observed[i].date /\ ts[k].taxa = Observed[i].taxa

\* C4 (forward fill): for some outcome of the sort, with d the series after
\* the removal of duplicates: a day whose row in d carries a rate keeps that
\* rate; a day without a row (or whose row carries none) has the value of the
\* series at the most recent earlier day whose row carries a rate.
C4_ForwardFill ==
    pc = "constructed" =>
      \E sorted \in SortIndex(Observed) :
        LET d == DropDuplicated(sorted)
            Rated == {i \in DOMAIN ts : ValueAt(d, ts[i].date) # NaN}
        IN \A i \in DOMAIN ts :
             IF i \in Rated THEN ts[i].taxa = ValueAt(d, ts[i].date)
             ELSE LET Before == {k \in Rated : k < i} IN
                  Before # {} =>
                    LET k == CHOOSE k \in Before : \A m \in Before : m <= k
                    IN ts[i].taxa = ts[k].taxa /\ ts[i].taxa = ValueAt(d, ts[k].date)

\* A series with a filled day whose neighbours hold different rates.
C4_Witness ==
    /\ pc = "constructed"
    /\ \E i \in 2 .. Len(ts) - 1 :
         /\ ts[i].date \notin ObservedDates
         /\ ts[i + 1].date \in ObservedDates
         /\ ts[i].taxa # NaN
         /\ ts[i].taxa = ts[i - 1].taxa
         /\ ts[i + 1].taxa # ts[i].taxa

\* C5 (empty filter): when the filter matches no row, construction fails with
\* an EmptyDatasetError and no classifier is constructed.
C5_EmptyFilterRaises ==
    (result.op = "__init__" /\ Observed = <<>>)
    => (result.status = "EmptyDatasetError" /\ pc # "constructed")

\* C8 (no in-place edit): no step changes the caller's table; once the
\* classifier is constructed no step changes the daily series; label_clusters
\* and classify_current_cycle leave the cluster assignment as it is.
C8_NoInPlaceEdit ==
    [][/\ df' = df
       /\ (pc = "constructed" => ts' = ts)
       /\ (result'.op \in {"label_clusters", "classify_current_cycle"} => clusters' = clusters)]_vars

----------------------------------------------------------------------------
(* Properties of the constructed classifier, checked under Spec *)

DistinctRates == {ts[i].taxa : i \in DOMAIN ts}

\* C1 (label ordering): after apply_clustering(K), with K no more than the
\* number of distinct rates, and label_clusters, each of the K clusters has a
\* label, and a cluster of smaller mean rate has the label of lower rank.
C1_EveryClusterRanked ==
    (/\ result.op = "label_clusters"
     /\ clusters # None
     /\ clusters.n_clusters <= Cardinality(DistinctRates))
    => /\ result.status = "ok"
       /\ labels # None
       /\ \A g \in 0 .. clusters.n_clusters - 1 : g \in DOMAIN labels.map
       /\ LET Rank(l) == IF l = "Baixa" THEN 1 ELSE IF l = "Media" THEN 2 ELSE 3
          IN \A g, h \in 0 .. clusters.n_clusters - 1 :
               MeanLess(ts, clusters.v, g, h) => Rank(labels.map[g]) < Rank(labels.map[h])

\* C6 (constant series): on a series whose values are all equal,
\* apply_clustering fails with a DegenerateSeriesError and never assigns
\* clusters.
C6_ConstantSeriesRaises ==
    (Len(ts) > 0 /\ Cardinality(DistinctRates) = 1 /\ NaN \notin DistinctRates)
    => /\ clusters = None
       /\ result.op = "apply_clustering" => result.status = "DegenerateSeriesError"

\* C9 (current cycle): when classify_current_cycle returns, the value is the
\* label of the row of the labelled series with the greatest date, which is
\* the name the labels dict gives to that row's cluster id.
C9_CurrentIsLastDate ==
    (result.op = "classify_current_cycle" /\ result.status = "ok")
    => /\ ts_clusters # Absent
       /\ labels # None
       /\ \E n \in DOMAIN ts_clusters.rows :
            /\ \A i \in DOMAIN ts_clusters.rows :
                  i # n => ts_clusters.rows[i].date < ts_clusters.rows[n].date
            /\ result.value = ts_clusters.rows[n].Label
            /\ result.value = MapLabel(labels.map, ts_clusters.rows[n].Cluster)

\* The query has returned on a series whose first and last day differ in label.
C9_Witness ==
    /\ result.op = "classify_current_cycle"
    /\ result.status = "ok"
    /\ Len(ts_clusters.rows) >= 3
    /\ ts_clusters.rows[1].Label # result.value
    /\ result.value \in {"Baixa", "Media", "Alta"}

\* C10 (call order): classify_current_cycle returns a label only when the
\* labelled series was built from the current cluster assignment.
C10_LabelAgreesWithClusters ==
    (result.op = "classify_current_cycle" /\ result.status = "ok")
    => /\ clusters # None
       /\ \A i \in DOMAIN ts_clusters.rows : ts_clusters.rows[i].Cluster = clusters.v[i]

----------------------------------------------------------------------------
(* Property of download_all_data, checked under SpecDL *)

\* C7 (batch outcomes): when download_all_data has ended, every task has
\* ended and the caller has been told the outcome of each of them.
C7_EveryOutcomeReported ==
    main.at \in {"returned", "raised"}
    => \A t \in Tasks :
         /\ Finished(t)
         /\ reported[t] = (IF task[t] = "done" THEN "ok" ELSE "failed")

====
